---- MODULE Spec2Model ----
(***************************************************************************)
(* A model of the job-application engine: the SQLite application tracker   *)
(* (ats/tracker.py), the tier-1 automation dispatcher                      *)
(* (ats/automation/tier1_automation.py) and the orchestrator's apply stage *)
(* (ATS/orchestrator.py).                                                  *)
(***************************************************************************)
EXTENDS Integers, Sequences, FiniteSets, TLC

VARIABLES
    \* ---- ApplicationTracker (tracker.py): the committed database ----
    applications,      \* table applications, in id order (row i has id i)
    status_history,    \* table status_history, in id order
    clock,             \* number of datetime.now() readings taken by the tracker
    t_op,              \* the last tracker call: [op, arg, id, ret, pre_apps, pre_hist]
    \* ---- Tier1Automation (tier1_automation.py) ----
    pc,                \* position of the apply_to_jobs coroutine
    jobs,              \* argument jobs of apply_to_jobs
    max_apps,          \* argument max_apps of apply_to_jobs
    jobs_to_process,   \* local jobs_to_process
    i,                 \* loop index i of enumerate(jobs_to_process, 1)
    auto_applications, \* self.applications
    success_count,     \* self.success_count
    fail_count,        \* self.fail_count
    context_open,      \* number of browser contexts currently open
    summary,           \* what _print_summary printed: <<>> or <<totals>>
    attempted,         \* the jobs handed to _apply_to_job, in call order
    slept,             \* seconds slept since the last attempt ended
    delays,            \* number of completed inter-application delays
    cooldowns,         \* number of completed session breaks
    \* ---- JobApplicationOrchestrator (orchestrator.py) ----
    opc,               \* position of run_full_pipeline
    good_jobs,         \* local good_jobs of run_full_pipeline
    dry_run,           \* argument dry_run
    runs,              \* number of pipeline runs started
    marked,            \* URLs passed to tracker.mark_submitted in this run
    \* ---- several ApplicationTracker connections on one database file ----
    conns,             \* per connection: position in add_application, job, result
    write_lock,        \* the connection whose open transaction holds the write lock
    uncommitted,       \* the row written by an INSERT that is not yet committed
    \* ---- ATSDetector (ats_detector.py) ----
    posting,           \* the job dict handed to classify_job
    classified,        \* the keys classify_job added, or that it raised
    ats_patterns,      \* ATSDetector.ATS_PATTERNS
    \* ---- JobMatcher (job_matcher.py) ----
    matcher,           \* self.resume, self.skills, self.keywords, self.target_roles
    loads,             \* number of load_resume calls made by the matcher's user
    last_call          \* the last call of the matcher and what it gave

tvars == <<applications, status_history, clock, t_op>>
avars == <<pc, jobs, max_apps, jobs_to_process, i, auto_applications,
           success_count, fail_count, context_open, summary, attempted,
           slept, delays, cooldowns>>
ovars == <<opc, good_jobs, dry_run, runs, marked>>
cvars == <<conns, write_lock, uncommitted>>
dvars == <<posting, classified, ats_patterns>>
mvars == <<matcher, loads, last_call>>
xvars == <<cvars, dvars, mvars>>
vars == <<tvars, avars, ovars, xvars>>

\* Python's None / SQL NULL / an absent dict key.
NULL == "None"

(***************************************************************************)
(* Bounds of the model.                                                    *)
(***************************************************************************)
MaxHistory == 2      \* cap on the number of update_status calls explored
MaxRouted == 2       \* longest list of per-provider jobs handed to apply_to_jobs
MaxJobs == 3         \* longest arbitrary job list handed to apply_to_jobs
MaxBatchJobs == 15   \* longest uniform job list handed to apply_to_jobs
MaxPipelineJobs == 2 \* longest scored job list entering the pipeline's filter
MaxRuns == 2         \* pipeline runs against one database
MaxRows == 2         \* rows in the table when concurrent callers stop adding
MaxLoads == 2        \* load_resume calls made by the matcher's user
MaxRanked == 3       \* longest job list handed to score_jobs

(***************************************************************************)
(* Values.                                                                 *)
(***************************************************************************)
\* get_application_id's None, which `if app_id:` treats like 0.
NoId == 0
\* A NULL applied_at / response_at column.
NoTime == 0

URLs == {"u1", "u2"}
Statuses == {"pending", "submitted", "failed", "responded"}
Notes == {NULL, "note"}

\* A job dict; a key the dict lacks is NULL (dict.get returns None for it,
\* dict[key] raises KeyError).
JobRec(url, title, company, ats, tier, score) ==
    [url |-> url, title |-> title, company |-> company, location |-> "Remote",
     ats |-> ats, tier |-> tier, match_score |-> score]

HasKey(job, k) == job[k] # NULL

\* The job dicts handed to the tracker: per URL two dicts that differ in every
\* other column, and one dict without a url key.
TrackerJobs ==
    {JobRec(u, "Data Engineer", "TechCorp", "jazzhr", 1, 85) : u \in URLs}
    \cup {JobRec(u, "ML Engineer", "AI Startup", "greenhouse", 2, 92) : u \in URLs}
    \cup {JobRec(NULL, "Analyst", "NoUrl Inc", "unknown", 3, 10)}

(***************************************************************************)
(* ApplicationTracker: the SQL statements as operators on the two tables.  *)
(***************************************************************************)
\* SELECT id FROM applications WHERE job_url = ?   (row['id'] if row else None)
get_application_id(apps, job_url) ==
    IF \E k \in 1..Len(apps) : apps[k].job_url = job_url
    THEN CHOOSE k \in 1..Len(apps) :
            /\ apps[k].job_url = job_url
            /\ \A m \in 1..(k - 1) : apps[m].job_url # job_url
    ELSE NoId

\* Mutant of IntegrityError: the UNIQUE constraint on job_url is missing.
IntegrityErrorNotUnique(apps, job) == job.url = NULL

\* job_url TEXT UNIQUE NOT NULL: whether the INSERT raises IntegrityError.
IntegrityError(apps, job) ==
    \/ job.url = NULL
    \/ \E k \in 1..Len(apps) : apps[k].job_url = job.url

\* The row INSERT INTO applications builds from the job, status 'pending'.
NewRow(job) ==
    [job_url |-> job.url, job_title |-> job.title, company |-> job.company,
     location |-> job.location, ats |-> job.ats, tier |-> job.tier,
     match_score |-> job.match_score, status |-> "pending",
     applied_at |-> NoTime, response_at |-> NoTime, notes |-> NULL]

\* add_application: the table after the call.
AddApplicationRows(apps, job) ==
    IF IntegrityError(apps, job) THEN apps ELSE Append(apps, NewRow(job))

\* add_application: whether the except branch's job['url'] raises KeyError.
AddApplicationRaises(apps, job) ==
    IntegrityError(apps, job) /\ ~HasKey(job, "url")

\* add_application: the value returned (cursor.lastrowid, or the lookup).
AddApplicationResult(apps, job) ==
    IF IntegrityError(apps, job)
    THEN get_application_id(apps, job.url)
    ELSE Len(apps) + 1

\* update_status: SELECT status ... ; old_status = row['status'] if row else None
OldStatus(apps, app_id) ==
    IF app_id \in 1..Len(apps) THEN apps[app_id].status ELSE NULL

\* Mutant of UpdateStatusRows: applied_at is written only for a submission.
UpdateStatusRowsStampsSubmitted(apps, app_id, new_status, now) ==
    [k \in 1..Len(apps) |->
        IF k = app_id
        THEN [apps[k] EXCEPT !.status = new_status,
                             !.applied_at = IF new_status = "submitted" THEN now ELSE @]
        ELSE apps[k]]

\* update_status: UPDATE applications SET status = ?, applied_at = ? WHERE id = ?
UpdateStatusRows(apps, app_id, new_status, now) ==
    [k \in 1..Len(apps) |->
        IF k = app_id
        THEN [apps[k] EXCEPT !.status = new_status, !.applied_at = now]
        ELSE apps[k]]

\* Mutant of UpdateStatusHistory: the INSERT into status_history is missing.
UpdateStatusHistoryDropped(hist, apps, app_id, new_status, notes) == hist

\* update_status: INSERT INTO status_history (...) VALUES (?, ?, ?, ?)
UpdateStatusHistory(hist, apps, app_id, new_status, notes) ==
    Append(hist, [application_id |-> app_id,
                  old_status |-> OldStatus(apps, app_id),
                  new_status |-> new_status,
                  notes |-> notes])

\* update_status never raises: no statement of it checks that the row exists.
UpdateStatusRaises(apps, app_id) == FALSE

\* mark_submitted / mark_failed: `if app_id:` guards the update.
MarkRows(apps, job_url, new_status, now) ==
    IF get_application_id(apps, job_url) # NoId
    THEN UpdateStatusRows(apps, get_application_id(apps, job_url), new_status, now)
    ELSE apps

\* Mutant of MarkHistory: update_status is called without the `if app_id:`.
MarkHistoryUnguarded(hist, apps, job_url, new_status, notes) ==
    UpdateStatusHistory(hist, apps, get_application_id(apps, job_url),
                        new_status, notes)

\* Mutant of MarkHistory: only a pending record is transitioned.
MarkHistoryPendingOnly(hist, apps, job_url, new_status, notes) ==
    IF /\ get_application_id(apps, job_url) # NoId
       /\ apps[get_application_id(apps, job_url)].status = "pending"
    THEN UpdateStatusHistory(hist, apps, get_application_id(apps, job_url),
                             new_status, notes)
    ELSE hist

\* mark_submitted / mark_failed: the history row update_status writes.
MarkHistory(hist, apps, job_url, new_status, notes) ==
    IF get_application_id(apps, job_url) # NoId
    THEN UpdateStatusHistory(hist, apps, get_application_id(apps, job_url),
                             new_status, notes)
    ELSE hist

MarkClock(apps, job_url, now) ==
    IF get_application_id(apps, job_url) # NoId THEN now + 1 ELSE now

\* What the tracker records of its last call, for stating properties.
TOp(op, url, id, status, ret, raised) ==
    [op |-> op, url |-> url, id |-> id, status |-> status, ret |-> ret,
     raised |-> raised]

(***************************************************************************)
(* ApplicationTracker: the public methods as actions of a caller.          *)
(***************************************************************************)
add_application(job) ==
    /\ applications' = AddApplicationRows(applications, job)
    /\ t_op' = TOp("add_application", job.url, NoId, NULL,
                   IF AddApplicationRaises(applications, job) THEN NoId
                   ELSE AddApplicationResult(applications, job),
                   AddApplicationRaises(applications, job))
    /\ UNCHANGED <<status_history, clock>>

update_status(app_id, new_status, notes) ==
    /\ Len(status_history) < MaxHistory
    /\ applications' = UpdateStatusRows(applications, app_id, new_status, clock + 1)
    /\ status_history' = UpdateStatusHistory(status_history, applications,
                                             app_id, new_status, notes)
    /\ clock' = clock + 1
    /\ t_op' = TOp("update_status", NULL, app_id, new_status, NoId,
                   UpdateStatusRaises(applications, app_id))

mark_submitted(job_url) ==
    /\ Len(status_history) < MaxHistory
    /\ applications' = MarkRows(applications, job_url, "submitted", clock + 1)
    /\ status_history' = MarkHistory(status_history, applications, job_url,
                                     "submitted", NULL)
    /\ clock' = MarkClock(applications, job_url, clock)
    /\ t_op' = TOp("mark_submitted", job_url, NoId, "submitted", NoId, FALSE)

mark_failed(job_url, reason) ==
    /\ Len(status_history) < MaxHistory
    /\ applications' = MarkRows(applications, job_url, "failed", clock + 1)
    /\ status_history' = MarkHistory(status_history, applications, job_url,
                                     "failed", reason)
    /\ clock' = MarkClock(applications, job_url, clock)
    /\ t_op' = TOp("mark_failed", job_url, NoId, "failed", NoId, FALSE)


(***************************************************************************)
(* Several ApplicationTracker objects on one database file.  Each object   *)
(* has its own sqlite3 connection (_init_db); a connection opens a         *)
(* transaction before its INSERT and ends it only by commit, so a          *)
(* connection whose INSERT raised IntegrityError keeps the write lock.     *)
(***************************************************************************)
Connections == {"a", "b"}
NoConn == "none"

IdleConn == [pc |-> "idle", job |-> JobRec(NULL, NULL, NULL, NULL, 0, 0),
             ret |-> NoId, raised |-> NULL]

\* Whether another connection holds the write lock.
LockedByOther(c) == write_lock \notin {NoConn, c}

\* Two callers call add_application at the same time, one per connection.
ConcurrentAdd(job_a, job_b) ==
    /\ \A c \in Connections : conns[c].pc \in {"idle", "done"}
    /\ Len(applications) < MaxRows
    /\ conns' = [c \in Connections |->
                   [pc |-> "insert", job |-> IF c = "a" THEN job_a ELSE job_b,
                    ret |-> NoId, raised |-> NULL]]
    /\ UNCHANGED <<applications, write_lock, uncommitted>>

\* cursor.execute(INSERT ...): waits while another connection is about to
\* commit or to run its own INSERT; raises "database is locked" when the lock
\* holder has left its transaction open; raises IntegrityError on a duplicate.
ConnInsert(c) ==
    /\ conns[c].pc = "insert"
    /\ \/ /\ LockedByOther(c)
          /\ conns[write_lock].pc \in {"lookup", "done"}
          /\ conns' = [conns EXCEPT ![c].pc = "done",
                                    ![c].raised = "OperationalError"]
          /\ UNCHANGED <<applications, write_lock, uncommitted>>
       \/ /\ ~LockedByOther(c)
          /\ write_lock' = c
          /\ IF IntegrityError(applications, conns[c].job)
             THEN /\ conns' = [conns EXCEPT
                        ![c].pc = IF HasKey(conns[c].job, "url")
                                  THEN "lookup" ELSE "done",
                        ![c].raised = IF HasKey(conns[c].job, "url")
                                      THEN NULL ELSE "KeyError"]
                  /\ UNCHANGED uncommitted
             ELSE /\ uncommitted' = <<NewRow(conns[c].job)>>
                  /\ conns' = [conns EXCEPT ![c].pc = "commit",
                                            ![c].ret = Len(applications) + 1]
          /\ UNCHANGED applications

\* self.conn.commit(); return cursor.lastrowid
ConnCommit(c) ==
    /\ conns[c].pc = "commit"
    /\ applications' = applications \o uncommitted
    /\ uncommitted' = <<>>
    /\ write_lock' = NoConn
    /\ conns' = [conns EXCEPT ![c].pc = "done"]

\* except sqlite3.IntegrityError: return self.get_application_id(job['url'])
ConnLookup(c) ==
    /\ conns[c].pc = "lookup"
    /\ conns' = [conns EXCEPT
           ![c].pc = "done",
           ![c].ret = get_application_id(applications, conns[c].job.url)]
    /\ UNCHANGED <<applications, write_lock, uncommitted>>

(***************************************************************************)
(* Tier1Automation: constants and pure parts.                              *)
(***************************************************************************)
DelayMin == 10          \* random.uniform(10, 20)
DelayMax == 20
SessionBreak == 30      \* asyncio.sleep(30)
BatchSize == 10         \* i % 10 == 0
DefaultMaxApps == 100   \* max_apps: int = 100

\* The delays random.uniform(10, 20) can return: its two ends stand for the range.
DelayChoices == {DelayMin, DelayMax}

\* The job dicts handed to the dispatcher: a tier-1 job whose strategy can
\* submit, a tier-1 job routed to the generic filler, a tier-2 job, and a
\* tier-1 job whose dict lacks the title key.
JazzJob == JobRec("u1", "Data Engineer", "TechCorp", "jazzhr", 1, 85)
RecruiteeJob == JobRec("u2", "ML Engineer", "AI Startup", "recruitee", 1, 92)
GreenhouseJob == JobRec("u3", "Analyst", "BigCo", "greenhouse", 2, 75)
UntitledJob == JobRec("u4", NULL, "NoTitle Ltd", "bamboohr", 1, 60)
AutoJobs == {JazzJob, RecruiteeJob, GreenhouseJob, UntitledJob}

\* [j for j in jobs if j.get('tier') == 1]
RECURSIVE Tier1Jobs(_)
Tier1Jobs(js) ==
    IF js = <<>> THEN <<>>
    ELSE IF Head(js).tier = 1 THEN <<Head(js)>> \o Tier1Jobs(Tail(js))
    ELSE Tier1Jobs(Tail(js))

\* Python's seq[:n]: the first n items, or all but the last -n when n < 0.
SliceTo(seq, n) ==
    IF n >= 0
    THEN SubSeq(seq, 1, IF n < Len(seq) THEN n ELSE Len(seq))
    ELSE SubSeq(seq, 1, IF Len(seq) + n > 0 THEN Len(seq) + n ELSE 0)

\* tier1_jobs[:max_apps]
JobsToProcess(js, m) == SliceTo(Tier1Jobs(js), m)

\* The prints at the top of the loop body read job['title'], job['company']
\* and job['url'] outside any try.
LoopPrintRaises(job) ==
    ~(HasKey(job, "title") /\ HasKey(job, "company") /\ HasKey(job, "url"))

\* `ats = job.get('ats', 'unknown')`
GetAts(job) == IF HasKey(job, "ats") THEN job.ats ELSE "unknown"

\* The providers _apply_to_job's if/elif chain names.
DispatchTable == {"jazzhr", "bamboohr", "recruitee", "manatal", "pinpoint"}

\* Mutant of Route: an unlisted provider is handled by the JazzHR filler.
RouteUnlistedToJazzhr(ats) ==
    IF ats \in DispatchTable THEN <<"_fill", ats>> ELSE <<"_fill", "jazzhr">>

\* The if/elif chain of _apply_to_job: the strategy method called for a
\* provider, `else: self._fill_generic(page)`.
Route(ats) ==
    IF ats \in DispatchTable THEN <<"_fill", ats>> ELSE <<"_fill", "generic">>

\* Mutant of StrategyBody: the delegating strategies fill and submit the form
\* as the JazzHR filler does.
StrategyBodyLikeJazzhr(strategy) ==
    IF strategy[2] \in {"recruitee", "manatal", "pinpoint"}
    THEN <<"_fill", "jazzhr">>
    ELSE strategy

\* The method whose body runs: _fill_recruitee, _fill_manatal and
\* _fill_pinpoint only `return await self._fill_generic(page)`.
StrategyBody(strategy) ==
    IF strategy[2] \in {"recruitee", "manatal", "pinpoint"}
    THEN <<"_fill", "generic">>
    ELSE strategy

\* Whether a filler's body has a path that clicks the submit button and
\* returns True: _fill_jazzhr and _fill_bamboohr do, _fill_generic ends in
\* `return False` on every path.
ClicksSubmit(body) == body[2] \in {"jazzhr", "bamboohr"}

\* _apply_to_job's routing: only _fill_jazzhr and _fill_bamboohr click submit
\* and can return True; the other strategies end in _fill_generic's
\* `return False`.
StrategyCanSubmit(ats) == ClicksSubmit(StrategyBody(Route(ats)))

\* What the page does to one attempt: the form is submitted, the strategy
\* returns False (selector missing, no submit button), or page.goto or the
\* strategy body raises inside _apply_to_job's try.
PageResults == {"submitted", "soft_fail", "exception"}

\* _apply_to_job's return value.
ApplySuccess(job, page) == page = "submitted" /\ StrategyCanSubmit(GetAts(job))

\* The entry _apply_to_job appends to self.applications (without its timestamp).
ApplicationEntry(job) ==
    [job_url |-> job.url, job_title |-> job.title, company |-> job.company,
     ats |-> GetAts(job), status |-> "submitted"]

\* Mutant of RecordAttempt: an entry is appended whatever the outcome.
RecordEveryAttempt(apps, job, success) == Append(apps, ApplicationEntry(job))

\* self.applications after one attempt: an entry is appended `if success:`.
RecordAttempt(apps, job, success) ==
    IF success THEN Append(apps, ApplicationEntry(job)) ELSE apps

\* Mutant of DelayDue: the random delay is skipped.
DelayNeverDue(k, n) == FALSE

\* `if i < len(jobs_to_process):` before the random delay.
DelayDue(k, n) == k < n

\* Mutant of SessionBreakDue: the break is also taken after the last job.
SessionBreakAfterLast(k, n) == k % BatchSize = 0

\* `if i % 10 == 0 and i < len(jobs_to_process):` before the session break.
SessionBreakDue(k, n) == k % BatchSize = 0 /\ k < n

\* _print_summary's totals.
Summary(s, f) == [total |-> s + f, successful |-> s, failed |-> f]

(***************************************************************************)
(* Tier1Automation.apply_to_jobs as a coroutine: one action per await.     *)
(***************************************************************************)
\* The call up to `await self._launch_browser(p)`, which may raise; without
\* tier-1 jobs it returns before the loop and before _print_summary.
ApplyToJobsCall(js, m) ==
    /\ pc = "idle"
    /\ jobs' = js
    /\ max_apps' = m
    /\ IF Tier1Jobs(js) = <<>>
       THEN /\ pc' = "done"
            /\ jobs_to_process' = <<>>
       ELSE /\ jobs_to_process' = JobsToProcess(js, m)
            /\ \/ pc' = "next"
               \/ pc' = "raised"   \* _launch_browser raises
    /\ UNCHANGED <<i, auto_applications, success_count, fail_count,
                   context_open, summary, attempted, slept, delays, cooldowns>>

\* Mutant of CloseContext: the finally clause does not close the context.
CloseContextLeaks(n) == n

\* `finally: await context.close()`: the number of open contexts after it.
CloseContext(n) == n - 1

\* Top of the loop body for the next job: the prints, then _apply_to_job up to
\* its first awaits (browser.new_context, context.new_page).  A KeyError of the
\* prints or a failure to open the context is not inside any try.  When
\* context.new_page raises after new_context returned, the exception leaves
\* `async with async_playwright()`, whose exit stops the browser and with it
\* the context just opened: the call ends with no context open.
BeginAttempt ==
    /\ pc = "next"
    /\ i < Len(jobs_to_process)
    /\ i' = i + 1
    /\ IF LoopPrintRaises(jobs_to_process[i + 1])
       THEN /\ pc' = "raised"
            /\ UNCHANGED <<attempted, context_open>>
       ELSE /\ attempted' = Append(attempted, jobs_to_process[i + 1])
            /\ \/ pc' = "attempt" /\ context_open' = context_open + 1
               \/ pc' = "raised" /\ UNCHANGED context_open
    /\ UNCHANGED <<jobs, max_apps, jobs_to_process, auto_applications,
                   success_count, fail_count, summary, slept, delays, cooldowns>>

\* The rest of _apply_to_job (navigate, route, record, finally close the
\* context) and the counter update that follows it without an await.
EndAttempt(page) ==
    /\ pc = "attempt"
    /\ LET job == jobs_to_process[i]
           success == ApplySuccess(job, page)
       IN /\ auto_applications' = RecordAttempt(auto_applications, job, success)
          /\ success_count' = IF success THEN success_count + 1 ELSE success_count
          /\ fail_count' = IF success THEN fail_count ELSE fail_count + 1
    /\ context_open' = CloseContext(context_open)
    /\ slept' = 0
    /\ pc' = IF DelayDue(i, Len(jobs_to_process)) THEN "delay"
             ELSE IF SessionBreakDue(i, Len(jobs_to_process)) THEN "cooldown"
             ELSE "next"
    /\ UNCHANGED <<jobs, max_apps, jobs_to_process, i, summary, attempted,
                   delays, cooldowns>>

\* `await asyncio.sleep(delay)` completes.
DelayElapsed(d) ==
    /\ pc = "delay"
    /\ slept' = slept + d
    /\ delays' = delays + 1
    /\ pc' = IF SessionBreakDue(i, Len(jobs_to_process)) THEN "cooldown" ELSE "next"
    /\ UNCHANGED <<jobs, max_apps, jobs_to_process, i, auto_applications,
                   success_count, fail_count, context_open, summary, attempted,
                   cooldowns>>

\* `await asyncio.sleep(30)` completes.
CooldownElapsed ==
    /\ pc = "cooldown"
    /\ slept' = slept + SessionBreak
    /\ cooldowns' = cooldowns + 1
    /\ pc' = "next"
    /\ UNCHANGED <<jobs, max_apps, jobs_to_process, i, auto_applications,
                   success_count, fail_count, context_open, summary, attempted,
                   delays>>

\* The loop is exhausted: `await browser.close()` and _print_summary.
CloseAndSummarize ==
    /\ pc = "next"
    /\ i = Len(jobs_to_process)
    /\ summary' = <<Summary(success_count, fail_count)>>
    /\ pc' = "done"
    /\ UNCHANGED <<jobs, max_apps, jobs_to_process, i, auto_applications,
                   success_count, fail_count, context_open, attempted, slept,
                   delays, cooldowns>>

\* The steps of a running apply_to_jobs call.
AutomationStep ==
    \/ BeginAttempt
    \/ \E page \in PageResults : EndAttempt(page)
    \/ \E d \in DelayChoices : DelayElapsed(d)
    \/ CooldownElapsed
    \/ CloseAndSummarize


(***************************************************************************)
(* JobApplicationOrchestrator: run_full_pipeline from its filter stage on, *)
(* and _apply_to_jobs.                                                     *)
(***************************************************************************)
MinMatchScore == 70        \* min_match_score: float = 70
Tier1MaxApps == 50         \* tier1_max_apps: int = 50

LowScoreJob == JobRec("u5", "Data Analyst", "SmallCo", "jazzhr", 1, 50)
\* The scored, classified job dicts reaching the filter stage.
PipelineJobs == {JazzJob, RecruiteeJob, GreenhouseJob, LowScoreJob}

\* Mutant of GoodJobs: every scored job passes the filter.
GoodJobsUnfiltered(js, min_score) == js

\* [j for j in jobs if j['match_score'] >= min_match_score]
RECURSIVE GoodJobs(_, _)
GoodJobs(js, min_score) ==
    IF js = <<>> THEN <<>>
    ELSE IF Head(js).match_score >= min_score
         THEN <<Head(js)>> \o GoodJobs(Tail(js), min_score)
         ELSE GoodJobs(Tail(js), min_score)

\* for job in good_jobs: self.tracker.add_application(job)
RECURSIVE TrackAll(_, _)
TrackAll(apps, js) ==
    IF js = <<>> THEN apps
    ELSE TrackAll(AddApplicationRows(apps, Head(js)), Tail(js))

\* Mutant of UrlsToMark: every job handed to the dispatcher is reported.
UrlsOfAllAttempted(entries) == [k \in 1..Len(attempted) |-> attempted[k].url]

\* The URLs the orchestrator reports to the tracker after the dispatcher
\* returned: for app in automation.applications: mark_submitted(app['job_url'])
UrlsToMark(entries) == [k \in 1..Len(entries) |-> entries[k].job_url]

\* The tracker after mark_submitted was called for each URL in turn.
RECURSIVE MarkAllSubmitted(_, _)
MarkAllSubmitted(db, urls) ==
    IF urls = <<>> THEN db
    ELSE MarkAllSubmitted(
            [apps |-> MarkRows(db.apps, Head(urls), "submitted", db.clock + 1),
             hist |-> MarkHistory(db.hist, db.apps, Head(urls), "submitted", NULL),
             clock |-> MarkClock(db.apps, Head(urls), db.clock)],
            Tail(urls))

\* Tier1Automation.__init__
NewAutomation ==
    /\ pc' = "idle"
    /\ jobs' = <<>>
    /\ max_apps' = DefaultMaxApps
    /\ jobs_to_process' = <<>>
    /\ i' = 0
    /\ auto_applications' = <<>>
    /\ success_count' = 0
    /\ fail_count' = 0
    /\ context_open' = 0
    /\ summary' = <<>>
    /\ attempted' = <<>>
    /\ slept' = 0
    /\ delays' = 0
    /\ cooldowns' = 0

\* Mutant of SkipsDispatch: step 5 applies also in a dry run.
NeverSkipsDispatch(dry) == FALSE

\* Step 5, `if not dry_run: await self._apply_to_jobs(...)`: whether the run
\* skips the applications.
SkipsDispatch(dry) == dry

\* run_full_pipeline, steps 4 and "Add to tracker", then the branch on dry_run
\* and _apply_to_jobs up to the resume fetch, which may fail and return.
RunPipeline(scored, min_score, dry) ==
    /\ opc \in {"idle", "finished", "crashed"}
    /\ runs < MaxRuns
    /\ scored # <<>>
    /\ runs' = runs + 1
    /\ good_jobs' = GoodJobs(scored, min_score)
    /\ dry_run' = dry
    /\ marked' = <<>>
    /\ applications' = TrackAll(applications, GoodJobs(scored, min_score))
    /\ NewAutomation
    /\ IF SkipsDispatch(dry)
       THEN opc' = "finished"
       ELSE IF Tier1Jobs(GoodJobs(scored, min_score)) = <<>>
            THEN opc' = "finished"
            ELSE \/ opc' = "apply"
                 \/ opc' = "finished"     \* requests.get raised: return
    /\ UNCHANGED <<status_history, clock, t_op>>

\* _apply_to_jobs: automation.apply_to_jobs(tier1_jobs, max_apps) is called.
OrchestratorApply(m) ==
    /\ opc = "apply"
    /\ ApplyToJobsCall(Tier1Jobs(good_jobs), m)
    /\ opc' = "applying"
    /\ UNCHANGED <<tvars, good_jobs, dry_run, runs, marked>>

\* apply_to_jobs is running.
OrchestratorWait ==
    /\ opc = "applying"
    /\ AutomationStep
    /\ UNCHANGED <<tvars, ovars>>

\* apply_to_jobs returned: "Update tracker".
UpdateTracker ==
    /\ opc = "applying"
    /\ pc = "done"
    /\ LET db == MarkAllSubmitted(
                    [apps |-> applications, hist |-> status_history,
                     clock |-> clock],
                    UrlsToMark(auto_applications))
       IN /\ applications' = db.apps
          /\ status_history' = db.hist
          /\ clock' = db.clock
    /\ marked' = UrlsToMark(auto_applications)
    /\ opc' = "finished"
    /\ UNCHANGED <<t_op, avars, good_jobs, dry_run, runs>>

\* apply_to_jobs raised: nothing in _apply_to_jobs or run_full_pipeline
\* catches it.
PipelineCrash ==
    /\ opc = "applying"
    /\ pc = "raised"
    /\ opc' = "crashed"
    /\ UNCHANGED <<tvars, avars, good_jobs, dry_run, runs, marked>>

(***************************************************************************)
(* ATSDetector (ats_detector.py).  A text is a sequence of tokens: the     *)
(* pieces of the string, in order, the string being cut wherever a string  *)
(* that the program searches for begins or ends in it ("jazzhr" is "jazz", *)
(* "hr"; "airflow" is "ai", "rflow").  `in` and re.search of a literal     *)
(* pattern are containment of token sequences.                             *)
(***************************************************************************)
Contains(text, sub) ==
    \E k \in 1..(Len(text) - Len(sub) + 1) : SubSeq(text, k, k + Len(sub) - 1) = sub

\* str.lower(), and the case folding of re.IGNORECASE, token by token.
LowerToken(t) ==
    CASE t = "AWS" -> "aws"
      [] t = "Acme" -> "acme"
      [] t = "Ai" -> "ai"
      [] t = "Analytics" -> "analytics"
      [] t = "Austin," -> "austin,"
      [] t = "Boards" -> "boards"
      [] t = "C" -> "c"
      [] t = "Dal" -> "dal"
      [] t = "Data" -> "data"
      [] t = "Docker" -> "docker"
      [] t = "ETL" -> "etl"
      [] t = "Engineer" -> "engineer"
      [] t = "Greenhouse" -> "greenhouse"
      [] t = "HR" -> "hr"
      [] t = "HTTPS" -> "https"
      [] t = "Jazz" -> "jazz"
      [] t = "ML" -> "ml"
      [] t = "Manager" -> "manager"
      [] t = "Python" -> "python"
      [] t = "Remote" -> "remote"
      [] t = "SQL" -> "sql"
      [] t = "Senior" -> "senior"
      [] t = "TX" -> "tx"
      [] t = "VP" -> "vp"
      [] OTHER -> t

Lower(text) == [k \in 1..Len(text) |-> LowerToken(text[k])]

\* The catalog, in dict order.  success_rate is in hundredths (0.75 is 75);
\* html_patterns are searched with re.IGNORECASE and are written folded.
ATS_PATTERNS == <<
    [name |-> "jazzhr", tier |-> 1, success_rate |-> 75,
     domains |-> <<<<"applytojob", ".", "com">>, <<"jazz", "hr", ".", "com">>>>,
     url_patterns |-> <<<<"applytojob", ".", "com">>, <<"jazz", "hr", ".", "com">>>>,
     html_patterns |-> <<<<"jazz", "hr">>, <<"jazz", "-", "hr">>>>],
    [name |-> "bamboohr", tier |-> 1, success_rate |-> 70,
     domains |-> <<<<"bamboo", "hr", ".", "com">>>>,
     url_patterns |-> <<<<".", "bamboo", "hr", ".", "com">>>>,
     html_patterns |-> <<<<"bamboo", "hr">>, <<"bamboo", "-", "hr">>>>],
    [name |-> "recruitee", tier |-> 1, success_rate |-> 75,
     domains |-> <<<<"recruitee", ".", "com">>>>,
     url_patterns |-> <<<<"recruitee", ".", "com">>>>,
     html_patterns |-> <<<<"recruitee">>, <<"recruitee">>>>],
    [name |-> "manatal", tier |-> 1, success_rate |-> 70,
     domains |-> <<<<"manatal", ".", "com">>>>,
     url_patterns |-> <<<<"manatal", ".", "com">>>>,
     html_patterns |-> <<<<"manatal">>, <<"manatal">>>>],
    [name |-> "pinpoint", tier |-> 1, success_rate |-> 65,
     domains |-> <<<<"pinpoint", "hq", ".", "com">>>>,
     url_patterns |-> <<<<"pinpoint", "hq", ".", "com">>>>,
     html_patterns |-> <<<<"pinpoint">>, <<"pinpoint", "-", "hq">>>>],
    [name |-> "lever", tier |-> 2, success_rate |-> 55,
     domains |-> <<<<"lever", ".", "co">>, <<"jobs", ".", "lever", ".", "co">>>>,
     url_patterns |-> <<<<"lever", ".", "co">>, <<"jobs", ".", "lever", ".", "co">>>>,
     html_patterns |-> <<<<"lever">>, <<"lever", "-", "portal">>>>],
    [name |-> "greenhouse", tier |-> 2, success_rate |-> 60,
     domains |->
        <<<<"greenhouse", ".", "io">>,
          <<"boards", ".", "greenhouse", ".", "io">>>>,
     url_patterns |->
        <<<<"greenhouse", ".", "io">>,
          <<"boards", ".", "greenhouse", ".", "io">>>>,
     html_patterns |-> <<<<"greenhouse">>, <<"greenhouse", "-", "portal">>>>],
    [name |-> "ashby", tier |-> 2, success_rate |-> 50,
     domains |-> <<<<"ashby", "hq", ".", "com">>>>,
     url_patterns |->
        <<<<"ashby", "hq", ".", "com">>,
          <<"jobs", ".", "ashby", "hq", ".", "com">>>>,
     html_patterns |-> <<<<"ashby">>, <<"ashby", "-", "portal">>>>],
    [name |-> "bullhorn", tier |-> 2, success_rate |-> 50,
     domains |-> <<<<"bullhorn", "staffing", ".", "com">>>>,
     url_patterns |-> <<<<"bullhorn">>>>,
     html_patterns |-> <<<<"bullhorn">>, <<"bullhorn", "-", "portal">>>>],
    [name |-> "trakstar", tier |-> 2, success_rate |-> 55,
     domains |-> <<<<"trakstar", ".", "com">>>>,
     url_patterns |-> <<<<"trakstar", ".", "com">>, <<"hire", ".", "trakstar">>>>,
     html_patterns |-> <<<<"trakstar">>, <<"trakstar", "-", "hire">>>>],
    [name |-> "workday", tier |-> 3, success_rate |-> 35,
     domains |-> <<<<"my", "workday", "jobs", ".", "com">>>>,
     url_patterns |->
        <<<<"my", "workday", "jobs", ".", "com">>,
          <<"workday", ".", "com">>>>,
     html_patterns |-> <<<<"workday">>, <<"workday", "-", "portal">>>>],
    [name |-> "icims", tier |-> 3, success_rate |-> 30,
     domains |-> <<<<"icims", ".", "com">>>>,
     url_patterns |-> <<<<"icims", ".", "com">>, <<"careers", "-", "icims">>>>,
     html_patterns |-> <<<<"icims">>, <<"icims", "-", "portal">>>>],
    [name |-> "taleo", tier |-> 3, success_rate |-> 25,
     domains |-> <<<<"taleo", ".", "net">>>>,
     url_patterns |->
        <<<<"taleo", ".", "net">>,
          <<"oracle", ".", "com", "/", "taleo">>>>,
     html_patterns |->
        <<<<"taleo">>,
          <<"taleo", "-", "portal">>,
          <<"oracle", " ", "taleo">>>>],
    [name |-> "smartrecruiters", tier |-> 3, success_rate |-> 35,
     domains |-> <<<<"smartrecruiters", ".", "com">>>>,
     url_patterns |->
        <<<<"smartrecruiters", ".", "com">>,
          <<"jobs", ".", "smartrecruiters">>>>,
     html_patterns |-> <<<<"smartrecruiters">>, <<"smartrecruiters", "-", "portal">>>>],
    [name |-> "successfactors", tier |-> 3, success_rate |-> 30,
     domains |-> <<<<"successfactors", ".", "com">>, <<"successfactors", ".", "eu">>>>,
     url_patterns |->
        <<<<"successfactors", ".", "com">>,
          <<"successfactors", ".", "eu">>,
          <<"sap", ".", "com", "/", "successfactors">>>>,
     html_patterns |-> <<<<"successfactors">>, <<"sap", " ", "successfactors">>>>],
    [name |-> "jobvite", tier |-> 3, success_rate |-> 40,
     domains |-> <<<<"jobvite", ".", "com">>>>,
     url_patterns |-> <<<<"jobvite", ".", "com">>, <<"jobs", ".", "jobvite">>>>,
     html_patterns |-> <<<<"jobvite">>, <<"jobvite", "-", "portal">>>>],
    [name |-> "ukgpro", tier |-> 3, success_rate |-> 30,
     domains |-> <<<<"ulti", "pro", ".", "com">>>>,
     url_patterns |-> <<<<"ulti", "pro", ".", "com">>, <<"ukg", ".", "com">>>>,
     html_patterns |-> <<<<"ukg", " ", "pro">>, <<"ulti", "pro">>>>],
    [name |-> "ceridian", tier |-> 3, success_rate |-> 30,
     domains |-> <<<<"dayforce", "hcm", ".", "com">>>>,
     url_patterns |-> <<<<"dayforce", "hcm", ".", "com">>, <<"dayforce", ".", "com">>>>,
     html_patterns |-> <<<<"ceridian">>, <<"dayforce">>>>],
    [name |-> "avature", tier |-> 3, success_rate |-> 35,
     domains |-> <<<<"avature", ".", "net">>>>,
     url_patterns |-> <<<<"avature", ".", "net">>, <<"careers", "-", "avature">>>>,
     html_patterns |-> <<<<"avature">>, <<"avature", "-", "portal">>>>]
>>

\* A url value: a str split into what precedes the netloc, the netloc, and
\* what follows it; or None; or the key is absent from the job dict.
StrUrl(head, netloc, tail) ==
    [kind |-> "str", head |-> head, netloc |-> netloc, tail |-> tail]
NoneUrl == [kind |-> "none", head |-> <<>>, netloc |-> <<>>, tail |-> <<>>]
AbsentUrl == [kind |-> "absent", head |-> <<>>, netloc |-> <<>>, tail |-> <<>>]
EmptyUrl == StrUrl(<<>>, <<>>, <<>>)

UrlText(url) == url.head \o url.netloc \o url.tail

\* `if url:`
Truthy(url) == url.kind = "str" /\ UrlText(url) # <<>>

HasToken(text, t) == \E k \in 1..Len(text) : text[k] = t

\* urlparse raises ValueError("Invalid IPv6 URL") on an unbalanced bracket in
\* the netloc; None.lower() raises AttributeError.
UrlparseRaises(url) == HasToken(url.netloc, "[") # HasToken(url.netloc, "]")

DetectFromUrlRaises(url) == url.kind = "none" \/ UrlparseRaises(url)

\* any(d in domain for d in patterns['domains'])
DomainMatch(p, url) ==
    \E k \in 1..Len(p.domains) : Contains(Lower(url.netloc), p.domains[k])

\* any(re.search(pattern, url_lower) for pattern in patterns['url_patterns'])
UrlPatternMatch(p, url) ==
    \E k \in 1..Len(p.url_patterns) : Contains(Lower(UrlText(url)), p.url_patterns[k])

\* any(re.search(pattern, html, re.IGNORECASE) for pattern in patterns['html_patterns'])
HtmlPatternMatch(p, html) ==
    \E k \in 1..Len(p.html_patterns) : Contains(Lower(html), p.html_patterns[k])

Detection(ats, tier, rate) == [ats |-> ats, tier |-> tier, success_rate |-> rate]

\* Mutant of UnknownATS: an unmatched posting defaults to the easiest tier.
UnknownATSTier1 == Detection("unknown", 1, 20)

\* return 'unknown', 3, 0.20
UnknownATS == Detection("unknown", 3, 20)

\* The first catalog entry, in catalog order, that the loop body returns for.
FirstHit(cat, hits) ==
    IF hits = {} THEN UnknownATS
    ELSE LET k == CHOOSE h \in hits : \A g \in hits : h <= g
         IN  Detection(cat[k].name, cat[k].tier, cat[k].success_rate)

\* detect_from_url: one loop over the catalog; each entry is tried by domain
\* and then by URL pattern before the next entry is looked at.
detect_from_url(cat, url) ==
    FirstHit(cat, {k \in 1..Len(cat) :
                      DomainMatch(cat[k], url) \/ UrlPatternMatch(cat[k], url)})

\* detect_from_html: the URL first when one is given, then the HTML patterns.
detect_from_html(cat, html, url) ==
    IF Truthy(url) /\ detect_from_url(cat, url).ats # "unknown"
    THEN detect_from_url(cat, url)
    ELSE FirstHit(cat, {k \in 1..Len(cat) : HtmlPatternMatch(cat[k], html)})

DetectFromHtmlRaises(html, url) == Truthy(url) /\ DetectFromUrlRaises(url)

\* _get_strategy: strategies.get(tier, 'manual')
get_strategy(tier) ==
    CASE tier = 1 -> "full_auto"
      [] tier = 2 -> "smart_auto"
      [] tier = 3 -> "semi_manual"
      [] OTHER -> "manual"

\* job.get('url', '')
GetUrl(job) == IF job.url.kind = "absent" THEN EmptyUrl ELSE job.url

\* classify_job: whether the call raises instead of returning.
ClassifyJobRaises(job) ==
    IF job.html # <<>>
    THEN DetectFromHtmlRaises(job.html, GetUrl(job))
    ELSE DetectFromUrlRaises(GetUrl(job))

\* classify_job: the detection it writes into the job dict.
ClassifyJobDetection(cat, job) ==
    IF job.html # <<>>
    THEN detect_from_html(cat, job.html, GetUrl(job))
    ELSE detect_from_url(cat, GetUrl(job))

NotClassified ==
    [raised |-> FALSE, ats |-> NULL, tier |-> 0, success_rate |-> 0,
     automation_strategy |-> NULL]

\* classify_job as a call: the keys it adds to the job, or the exception.
classify_job(job) ==
    /\ posting' = job
    /\ classified' =
         IF ClassifyJobRaises(job)
         THEN [NotClassified EXCEPT !.raised = TRUE]
         ELSE LET d == ClassifyJobDetection(ats_patterns, job)
              IN  [raised |-> FALSE, ats |-> d.ats, tier |-> d.tier,
                   success_rate |-> d.success_rate,
                   automation_strategy |-> get_strategy(d.tier)]
    /\ UNCHANGED ats_patterns

(***************************************************************************)
(* JobMatcher (job_matcher.py): the profile.                               *)
(***************************************************************************)
\* _load_fallback_skills: self.skills
FallbackSkills ==
    {<<"python">>, <<"sql">>, <<"aws">>, <<"gcp">>, <<"docker">>, <<"git">>,
     <<"tensorflow">>, <<"pytorch">>, <<"la", "ngch", "ai", "n">>,
     <<"ai", "rflow">>, <<"dbt">>, <<"bigquery">>, <<"postgre", "sql">>,
     <<"strea", "ml", "it">>, <<"pandas">>, <<"numpy">>,
     <<"scikit", "-", "learn">>, <<"py", "spark">>,
     <<"data", " ", "engineer", "ing">>, <<"machine", " ", "learning">>,
     <<"etl">>, <<"data", " ", "pipeline">>, <<"cloud">>, <<"api">>,
     <<"rest", " ", "api">>, <<"ml", "ops">>, <<"ci/cd">>, <<"kubernetes">>}

\* _load_fallback_skills: self.target_roles
FallbackRoles ==
    <<<<"data", " ", "engineer">>, <<"ml", " ", "engineer">>,
     <<"data", " ", "analyst">>,
     <<"machine", " ", "learning", " ", "engineer">>,
     <<"ai", " ", "engineer">>>>

\* _score_title: partial matches
TitleWords ==
    {<<"data">>, <<"engineer">>, <<"ml">>, <<"machine", " ", "learning">>,
     <<"ai">>}

\* _score_title: senior/lead bonus
SeniorWords ==
    {<<"senior">>, <<"lead">>, <<"staff">>, <<"principal">>}

\* _score_title: penalty for management/director roles
PenaltyWords ==
    {<<"manager">>, <<"director">>, <<"vp">>, <<"executive">>}

\* _score_skills: high_value_skills
HighValueSkills ==
    {<<"python">>, <<"sql">>, <<"aws">>, <<"gcp">>, <<"ai", "rflow">>,
     <<"dbt">>, <<"tensorflow">>, <<"pytorch">>, <<"spark">>, <<"bigquery">>}

\* _score_location: 'remote'
RemoteWords ==
    {<<"remote">>}

\* _score_location: the LA area
LAWords ==
    {<<"los", " ", "angeles">>, <<"la">>, <<"ca", "lifornia">>, <<"ca">>}

\* _score_location: 'united states', 'usa'
USWords ==
    {<<"united", " ", "states">>, <<"usa">>}

\* _score_company: good_keywords
CompanyWords ==
    {<<"tech">>, <<"ai">>, <<"data">>, <<"cloud">>, <<"software">>,
     <<"di", "git", "al">>, <<"analytics">>}

\* An item of the resume's JSON that is not a string (a number, null).
NotAStr == <<"<not a str>">>

\* response.json(): a dict with the three sections flattened over their
\* categories; {} is the dict without any key.
ResumeDict(name, skills, keywords, target_roles) ==
    [name |-> name, skills |-> skills, keywords |-> keywords,
     target_roles |-> target_roles]
EmptyResume == ResumeDict(NULL, <<>>, <<>>, <<>>)

\* self.resume is None (<<>>) or the dict (<<dict>>); `if not self.resume`.
HasResume(m) == m.resume # <<>> /\ m.resume[1] # EmptyResume

\* str.replace(a, b), token by token.
Replace(text, a, b) == [k \in 1..Len(text) |-> IF text[k] = a THEN b ELSE text[k]]

\* _extract_skills: the forms added for one skill name.
SkillForms(skill) ==
    {Lower(skill), Lower(Replace(skill, "_", " ")), Lower(Replace(skill, "-", " "))}

\* The items of a list that a loop calling item.lower() gets through.
ItemsRaise(items) == \E k \in 1..Len(items) : items[k] = NotAStr
ItemsBeforeRaise(items) ==
    IF ItemsRaise(items)
    THEN SubSeq(items, 1, (CHOOSE k \in 1..Len(items) :
                              /\ items[k] = NotAStr
                              /\ \A j \in 1..(k - 1) : items[j] # NotAStr) - 1)
    ELSE items

\* _extract_skills
ExtractSkills(m) ==
    IF ~HasResume(m) THEN m
    ELSE [m EXCEPT !.skills =
            @ \cup UNION {SkillForms(m.resume[1].skills[k]) :
                             k \in 1..Len(m.resume[1].skills)}]

\* _extract_keywords: kw.lower() raises on an item that is not a str, and then
\* the skills are not added as keywords.
ExtractKeywordsRaises(m) == HasResume(m) /\ ItemsRaise(m.resume[1].keywords)

ExtractKeywords(m) ==
    IF ~HasResume(m) THEN m
    ELSE LET kws == ItemsBeforeRaise(m.resume[1].keywords)
             added == m.keywords \cup {Lower(kws[k]) : k \in 1..Len(kws)}
         IN  [m EXCEPT !.keywords =
                 IF ExtractKeywordsRaises(m) THEN added ELSE added \cup m.skills]

\* _extract_target_roles: the list comprehension raises as a whole.
ExtractTargetRolesRaises(m) == HasResume(m) /\ ItemsRaise(m.resume[1].target_roles)

ExtractTargetRoles(m) ==
    IF ~HasResume(m) \/ ExtractTargetRolesRaises(m) THEN m
    ELSE [m EXCEPT !.target_roles =
            @ \o [k \in 1..Len(m.resume[1].target_roles) |->
                     Lower(m.resume[1].target_roles[k])]]

\* Mutant of LoadFallbackSkills: the fallback terms are added to what is there.
LoadFallbackSkillsAdded(m) ==
    [m EXCEPT !.skills = @ \cup FallbackSkills,
              !.keywords = @ \cup FallbackSkills,
              !.target_roles = @ \o FallbackRoles]

\* _load_fallback_skills
LoadFallbackSkills(m) ==
    [m EXCEPT !.skills = FallbackSkills,
              !.keywords = FallbackSkills,
              !.target_roles = FallbackRoles]

\* What requests.get / raise_for_status / response.json() come to.
FetchOutcomes == {"network_error", "error_status", "unparsable_body", "ok"}

\* A call that does not reach load_resume fetches nothing.
NoFetch == [outcome |-> "none", resume |-> EmptyResume]

\* load_resume: whether the try block raises (and False is returned).
LoadResumeFails(m, fetch) ==
    \/ fetch.outcome # "ok"
    \/ LET m1 == ExtractSkills([m EXCEPT !.resume = <<fetch.resume>>])
       IN  \/ ExtractKeywordsRaises(m1)
           \/ ExtractTargetRolesRaises(ExtractKeywords(m1))

\* load_resume: the matcher after the call.
load_resume(m, fetch) ==
    IF fetch.outcome # "ok" THEN LoadFallbackSkills(m)
    ELSE LET m1 == ExtractSkills([m EXCEPT !.resume = <<fetch.resume>>])
             m2 == ExtractKeywords(m1)
         IN  IF ExtractKeywordsRaises(m1) \/ ExtractTargetRolesRaises(m2)
             THEN LoadFallbackSkills(m2)
             ELSE ExtractTargetRoles(m2)

(***************************************************************************)
(* JobMatcher: scoring.                                                    *)
(***************************************************************************)
\* The scores are fractions; every score below that is not an integer is
\* given as its numerator over the common denominator Den(m).
SkillCount(m) == IF m.skills = {} THEN 1 ELSE Cardinality(m.skills)
KeywordCount(m) == IF m.keywords = {} THEN 1 ELSE Cardinality(m.keywords)
Den(m) == SkillCount(m) * KeywordCount(m)

\* min(score, 100)
Min(a, b) == IF a <= b THEN a ELSE b

\* Mutant of Max: the title score is not clamped at 0.
FirstOf(a, b) == a

\* max(score, 0)
Max(a, b) == IF a >= b THEN a ELSE b

\* any(word in text for word in words)
AnyIn(words, text) == \E w \in words : Contains(text, w)

\* _score_title
score_title(m, title) ==
    IF title = <<>> THEN 0
    ELSE Max((IF \E k \in 1..Len(m.target_roles) :
                    Contains(Lower(title), m.target_roles[k]) THEN 15 ELSE 0)
             + (IF AnyIn(TitleWords, Lower(title)) THEN 5 ELSE 0)
             + (IF AnyIn(SeniorWords, Lower(title)) THEN 3 ELSE 0)
             - (IF AnyIn(PenaltyWords, Lower(title)) THEN 10 ELSE 0), 0)

\* _score_skills, times Den(m): match_ratio * 30 + min(high_value_matches * 2, 10)
score_skills(m, text) ==
    IF m.skills = {} THEN 0
    ELSE LET matched_skills == {s \in m.skills : Contains(text, s)}
             high_value_matches == Cardinality(matched_skills \cap HighValueSkills)
         IN  30 * Cardinality(matched_skills) * KeywordCount(m)
             + Min(high_value_matches * 2, 10) * Den(m)

\* _score_keywords, times Den(m): match_ratio * 20
score_keywords(m, text) ==
    IF m.keywords = {} THEN 0
    ELSE 20 * Cardinality({kw \in m.keywords : Contains(text, kw)}) * SkillCount(m)

\* _score_location
score_location(location) ==
    IF location = <<>> THEN 0
    ELSE IF AnyIn(RemoteWords, Lower(location)) THEN 5
    ELSE IF AnyIn(LAWords, Lower(location)) THEN 4
    ELSE IF AnyIn(USWords, Lower(location)) THEN 2
    ELSE 0

\* _score_company
score_company(company) ==
    IF company # <<>> /\ AnyIn(CompanyWords, Lower(company)) THEN 5 ELSE 0

\* score_job: ' '.join([title, description, snippet, company]).lower()
JobText(job) ==
    Lower(job.title \o <<" ">> \o job.description \o <<" ">> \o job.snippet
          \o <<" ">> \o job.company)

\* score_job, times Den(m), for a matcher that has its skills.
score_job(m, job) ==
    LET job_text == JobText(job)
    IN  Min(score_title(m, job.title) * Den(m)
            + score_skills(m, job_text)
            + score_keywords(m, job_text)
            + score_location(job.location) * Den(m)
            + (IF job.salary THEN 5 ELSE 0) * Den(m)
            + score_company(job.company) * Den(m),
            100 * Den(m))

\* score_job: `if not self.skills: self.load_resume()`
ScoreJobMatcher(m, fetch) == IF m.skills = {} THEN load_resume(m, fetch) ELSE m

\* round(score, 1), in tenths: the nearest tenth, a tie going to the even one.
Round1(num, den) ==
    LET q == (10 * num) \div den
        r == (10 * num) % den
    IN  IF 2 * r < den THEN q
        ELSE IF 2 * r > den THEN q + 1
        ELSE IF q % 2 = 0 THEN q ELSE q + 1

\* Mutant of InsertByScore: a posting goes before the postings of equal score.
InsertBeforeTies(sorted, x) ==
    LET k == Cardinality({j \in 1..Len(sorted) :
                             sorted[j].match_score > x.match_score})
    IN  SubSeq(sorted, 1, k) \o <<x>> \o SubSeq(sorted, k + 1, Len(sorted))

\* jobs.sort(key=match_score, reverse=True) is a stable sort: a posting goes
\* after the postings before it in the list that score at least as much.
InsertByScore(sorted, x) ==
    LET k == Cardinality({j \in 1..Len(sorted) :
                             sorted[j].match_score >= x.match_score})
    IN  SubSeq(sorted, 1, k) \o <<x>> \o SubSeq(sorted, k + 1, Len(sorted))

RECURSIVE SortByScore(_)
SortByScore(js) ==
    IF js = <<>> THEN <<>>
    ELSE InsertByScore(SortByScore(SubSeq(js, 1, Len(js) - 1)), js[Len(js)])

\* score_jobs: `if not self.resume: self.load_resume()`
ScoreJobsMatcher(m, fetch) == IF ~HasResume(m) THEN load_resume(m, fetch) ELSE m

\* The matcher after score_jobs has scored its first n postings.
RECURSIVE MatcherAfter(_, _, _)
MatcherAfter(m, fetch, n) ==
    IF n = 0 THEN ScoreJobsMatcher(m, fetch)
    ELSE ScoreJobMatcher(MatcherAfter(m, fetch, n - 1), fetch)

\* A posting with what the scorer computed for it: pos is the place of the
\* dict in the list handed in, score is score_job's value times Den, and
\* match_score is the value of the key 'match_score' in tenths.
NoScore == -1
ScoredJob(job, pos, score, match_score) ==
    [job |-> job, pos |-> pos, score |-> score, match_score |-> match_score]

\* score_jobs: the loop, before the sort.
ScoreAll(m, fetch, js) ==
    [k \in 1..Len(js) |->
        LET mk == MatcherAfter(m, fetch, k)
            score == score_job(mk, js[k])
        IN  ScoredJob(js[k], k, score, Round1(score, Den(mk)))]

\* What the last call of the matcher was and gave: load is "none" when the
\* call did not run load_resume, else "ok" or "failed"; jobs is the list the
\* matcher's user holds, result the list score_job / score_jobs gave.
MatcherCall(op, load, js, result) ==
    [op |-> op, load |-> load, jobs |-> js, result |-> result]

LoadStatus(m, fetch) == IF LoadResumeFails(m, fetch) THEN "failed" ELSE "ok"

\* load_resume called by the user of the matcher.
LoadResume(fetch) ==
    /\ last_call.op \in {"init", "load_resume"}
    /\ loads < MaxLoads
    /\ loads' = loads + 1
    /\ matcher' = load_resume(matcher, fetch)
    /\ last_call' = MatcherCall("load_resume", LoadStatus(matcher, fetch),
                                last_call.jobs, <<>>)

\* score_job called on the posting.
ScoreJob(fetch) ==
    /\ last_call.op \in {"init", "load_resume"}
    /\ Len(last_call.jobs) = 1
    /\ matcher' = ScoreJobMatcher(matcher, fetch)
    /\ last_call' =
          MatcherCall("score_job",
              IF matcher.skills = {} THEN LoadStatus(matcher, fetch) ELSE "none",
              last_call.jobs,
              <<ScoredJob(last_call.jobs[1], 1,
                          score_job(ScoreJobMatcher(matcher, fetch),
                                    last_call.jobs[1]),
                          NoScore)>>)
    /\ UNCHANGED loads

\* score_jobs called on the list of postings.
ScoreJobs(fetch) ==
    /\ last_call.op \in {"init", "load_resume"}
    /\ matcher' = MatcherAfter(matcher, fetch, Len(last_call.jobs))
    /\ last_call' =
          MatcherCall("score_jobs",
              IF ~HasResume(matcher) THEN LoadStatus(matcher, fetch)
              ELSE IF last_call.jobs # <<>> /\ matcher.skills = {}
                   THEN LoadStatus(matcher, fetch)
              ELSE "none",
              last_call.jobs,
              SortByScore(ScoreAll(matcher, fetch, last_call.jobs)))
    /\ UNCHANGED loads

(***************************************************************************)
(* Specifications.                                                         *)
(***************************************************************************)
InitEngine ==
    /\ applications = <<>>
    /\ status_history = <<>>
    /\ clock = 0
    /\ t_op = TOp("init", NULL, NoId, NULL, NoId, FALSE)
    /\ pc = "idle"
    /\ jobs = <<>>
    /\ max_apps = DefaultMaxApps
    /\ jobs_to_process = <<>>
    /\ i = 0
    /\ auto_applications = <<>>
    /\ success_count = 0
    /\ fail_count = 0
    /\ context_open = 0
    /\ summary = <<>>
    /\ attempted = <<>>
    /\ slept = 0
    /\ delays = 0
    /\ cooldowns = 0
    /\ opc = "idle"
    /\ good_jobs = <<>>
    /\ dry_run = TRUE
    /\ runs = 0
    /\ marked = <<>>
    /\ conns = [c \in Connections |-> IdleConn]
    /\ write_lock = NoConn
    /\ uncommitted = <<>>

\* A new ATSDetector, about to classify the posting job.
InitDetector(job) ==
    /\ posting = job
    /\ classified = NotClassified
    /\ ats_patterns = ATS_PATTERNS

\* JobMatcher.__init__, about to be handed the postings js.
InitMatcher(js) ==
    /\ matcher = [resume |-> <<>>, skills |-> {}, keywords |-> {},
                  target_roles |-> <<>>]
    /\ loads = 0
    /\ last_call = MatcherCall("init", "none", js, <<>>)

Init ==
    /\ InitEngine
    /\ InitDetector([url |-> AbsentUrl, html |-> <<>>])
    /\ InitMatcher(<<>>)

\* The tracker driven through its public methods.
TrackerNext ==
    \/ \E job \in TrackerJobs : add_application(job) /\ UNCHANGED <<avars, ovars, xvars>>
    \/ \E id \in 1..(Len(applications) + 1), s \in Statuses :
          update_status(id, s, NULL) /\ UNCHANGED <<avars, ovars, xvars>>
    \/ \E u \in URLs : mark_submitted(u) /\ UNCHANGED <<avars, ovars, xvars>>
    \/ \E u \in URLs, r \in Notes : mark_failed(u, r) /\ UNCHANGED <<avars, ovars, xvars>>

Spec == Init /\ [][TrackerNext]_vars

\* update_status takes `new_status: str` and binds it into the UPDATE as it
\* is: the table has no CHECK on status, so a caller outside this package can
\* store any text.  "interview" stands for a text outside Statuses.
StatusArgs == Statuses \cup {"interview"}

\* The tracker as an external caller can drive it: records are added and
\* update_status is called with any status text.
ExternalNext ==
    \/ \E job \in TrackerJobs : add_application(job) /\ UNCHANGED <<avars, ovars, xvars>>
    \/ \E id \in 1..(Len(applications) + 1), s \in StatusArgs :
          update_status(id, s, NULL) /\ UNCHANGED <<avars, ovars, xvars>>

SpecExternal == Init /\ [][ExternalNext]_vars

\* Tier-1 job dicts per provider: the five the dispatcher lists, "unknown",
\* a provider it does not list, and a dict without the ats key.
RoutedJob(ats) == JobRec("u5", "Engineer", "Acme", ats, 1, 70)
RoutedJobs == {RoutedJob(a) : a \in DispatchTable \cup {"unknown", "greenhouse", NULL}}

\* Job lists of any content up to MaxJobs, lists of up to MaxRouted
\* per-provider jobs, and lists of up to MaxBatchJobs copies of one tier-1 job.
JobLists ==
    UNION {[1..n -> AutoJobs] : n \in 0..MaxJobs}
    \cup UNION {[1..n -> RoutedJobs] : n \in 1..MaxRouted}
    \cup {[k \in 1..n |-> JazzJob] : n \in 1..MaxBatchJobs}

MaxAppsChoices == {-1, 0, 1, 2, BatchSize, BatchSize + 1, DefaultMaxApps}

\* One apply_to_jobs call on a fresh Tier1Automation.
DispatchNext ==
    \/ \E js \in JobLists, m \in MaxAppsChoices :
          ApplyToJobsCall(js, m) /\ UNCHANGED <<tvars, ovars, xvars>>
    \/ AutomationStep /\ UNCHANGED <<tvars, ovars, xvars>>

SpecDispatch == Init /\ [][DispatchNext]_vars

ScoredLists == UNION {[1..n -> PipelineJobs] : n \in 1..MaxPipelineJobs}

\* Pipeline runs, one after the other, against one database.
PipelineNext ==
    \/ \E js \in ScoredLists, dry \in BOOLEAN :
          RunPipeline(js, MinMatchScore, dry) /\ UNCHANGED xvars
    \/ \E m \in {1, Tier1MaxApps} : OrchestratorApply(m) /\ UNCHANGED xvars
    \/ OrchestratorWait /\ UNCHANGED xvars
    \/ UpdateTracker /\ UNCHANGED xvars
    \/ PipelineCrash /\ UNCHANGED xvars

SpecPipeline == Init /\ [][PipelineNext]_vars

\* Rounds of two concurrent add_application calls, one per connection.
ConcurrentNext ==
    \/ \E ja \in TrackerJobs, jb \in TrackerJobs :
          ConcurrentAdd(ja, jb) /\ UNCHANGED <<status_history, clock, t_op, avars, ovars, dvars, mvars>>
    \/ \E c \in Connections :
          ConnInsert(c) /\ UNCHANGED <<status_history, clock, t_op, avars, ovars, dvars, mvars>>
    \/ \E c \in Connections :
          ConnCommit(c) /\ UNCHANGED <<status_history, clock, t_op, avars, ovars, dvars, mvars>>
    \/ \E c \in Connections :
          ConnLookup(c) /\ UNCHANGED <<status_history, clock, t_op, avars, ovars, dvars, mvars>>

SpecConcurrent == Init /\ [][ConcurrentNext]_vars

\* The postings handed to classify_job: a URL with a scheme, or the same text
\* without one (urlparse then finds no netloc), or no usable URL; and a page.
Https == <<"https", ":", "//">>
Netlocs ==
    {<<"boards", ".", "greenhouse", ".", "io">>,
     <<"Boards", ".", "Greenhouse", ".", "io">>,
     <<"jobs", ".", "lever", ".", "co">>,
     <<"lever", ".", "co", ".", "greenhouse", ".", "io">>,
     <<"acme", ".", "bamboo", "hr", ".", "com">>,
     <<"acme", ".", "my", "workday", "jobs", ".", "com">>,
     <<"example", ".", "com">>,
     <<"[", "bad">>}
Tails ==
    {<<>>,
     <<"/", "acme", "/", "jobs", "/", "1">>,
     <<"/", "jobs", "?", "ref", "=", "applytojob", ".", "com">>,
     <<"/", "bullhorn", "/", "jobs">>,
     <<"/", "lever", ".", "co">>}
Htmls ==
    {<<>>,
     <<"Powered", " ", "by", " ", "Greenhouse">>,
     <<"apply", " ", "via", " ", "Jazz", "HR">>,
     <<"hello">>}
DetectorUrls ==
    {StrUrl(Https, n, t) : n \in Netlocs, t \in Tails}
    \cup {StrUrl(<<>>, <<>>, n \o t) : n \in Netlocs, t \in Tails}
    \cup {NoneUrl, AbsentUrl, EmptyUrl}
Postings == [url : DetectorUrls, html : Htmls]

\* classify_job called on a posting.
ClassifyNext ==
    /\ classified = NotClassified
    /\ classify_job(posting)
    /\ UNCHANGED <<tvars, avars, ovars, cvars, mvars>>

InitClassify ==
    /\ InitEngine
    /\ \E job \in Postings : InitDetector(job)
    /\ InitMatcher(<<>>)

SpecClassify == InitClassify /\ [][ClassifyNext]_vars
\* The skill names of the resume the endpoint serves.
ResumeSkills ==
    <<<<"Python">>, <<"SQL">>, <<"AWS">>, <<"VP", "C">>, <<"Docker">>,
     <<"Ai", "rflow">>, <<"machine", "_", "learning">>>>

\* Its keywords.
ResumeKeywords ==
    <<<<"ETL">>>>

\* Its target roles.
ResumeRoles ==
    <<<<"Data", " ", "Engineer">>>>

\* Field values of the postings handed to the scorer ('' is an absent key).
Titles ==
    {<<>>, <<"Data", " ", "Engineer">>, <<"Senior", " ", "ML", " ", "Engineer">>,
     <<"Engineer", "ing", " ", "Manager">>}

Descriptions ==
    {<<>>, <<"Python", " ", "and", " ", "SQL", " ", "on", " ", "AWS">>}

Snippets ==
    {<<>>, <<"Ai", "rflow", " ", "pipelines">>}

Companies ==
    {<<>>, <<"Acme", " ", "Analytics">>}

Locations ==
    {<<>>, <<"Remote">>, <<"Dal", "la", "s,", " ", "TX">>}

\* The resumes the endpoint can serve, and what a fetch can come to.
GoodResume == ResumeDict("Anix", ResumeSkills, ResumeKeywords, ResumeRoles)
BadKeywordResume ==
    ResumeDict("Anix", ResumeSkills, ResumeKeywords \o <<NotAStr>>, ResumeRoles)
BadRoleResume == ResumeDict("Anix", ResumeSkills, ResumeKeywords, <<NotAStr>>)
Resumes == {GoodResume, EmptyResume, BadKeywordResume, BadRoleResume}
Fetches ==
    {[outcome |-> o, resume |-> EmptyResume] : o \in FetchOutcomes \ {"ok"}}
    \cup {[outcome |-> "ok", resume |-> r] : r \in Resumes}
FetchesIfLoading(loading) == IF loading THEN Fetches ELSE {NoFetch}

MatcherJob(title, description, snippet, company, location, salary) ==
    [title |-> title, description |-> description, snippet |-> snippet,
     company |-> company, location |-> location, salary |-> salary]

MatcherJobs ==
    {MatcherJob(t, d, s, c, l, p) :
        t \in Titles, d \in Descriptions, s \in Snippets, c \in Companies,
        l \in Locations, p \in BOOLEAN}

\* The postings of the lists handed to score_jobs: two that score the same
\* under every profile, and one that scores more.
RankedJobs ==
    {MatcherJob(<<"Data", " ", "Engineer">>, <<>>, <<>>, <<>>, <<>>, FALSE),
     MatcherJob(<<"Data", " ", "Engineer">>, <<>>, <<>>, <<>>,
                <<"Austin,", " ", "TX">>, FALSE),
     MatcherJob(<<"Senior", " ", "ML", " ", "Engineer">>, <<>>, <<>>, <<>>,
                <<"Remote">>, TRUE)}
RankedLists == UNION {[1..n -> RankedJobs] : n \in 0..MaxRanked}

\* The matcher driven through load_resume, score_job and score_jobs.
MatcherNext ==
    \/ \E f \in Fetches :
          LoadResume(f) /\ UNCHANGED <<tvars, avars, ovars, cvars, dvars>>
    \/ \E f \in FetchesIfLoading(matcher.skills = {}) :
          ScoreJob(f) /\ UNCHANGED <<tvars, avars, ovars, cvars, dvars>>
    \/ \E f \in FetchesIfLoading(~HasResume(matcher) \/ matcher.skills = {}) :
          ScoreJobs(f) /\ UNCHANGED <<tvars, avars, ovars, cvars, dvars>>

InitScoring ==
    /\ InitEngine
    /\ InitDetector([url |-> AbsentUrl, html |-> <<>>])
    /\ \E js \in {<<job>> : job \in MatcherJobs} \cup RankedLists : InitMatcher(js)

SpecMatcher == InitScoring /\ [][MatcherNext]_vars


(***************************************************************************)
(* Properties.                                                             *)
(***************************************************************************)
RowIds(apps) == 1..Len(apps)
RowsOfUrl(apps, u) == {k \in RowIds(apps) : apps[k].job_url = u}

\* C1: add_application with a URL leaves exactly one row for that URL and
\* returns that row's id; rows never move, so a second call returns the id the
\* first returned; and a call for a URL already stored changes neither table,
\* whatever the job dict carries and whatever the row's status is.
C1_AddIsIdempotentUpsert ==
    [][/\ \A k \in RowIds(applications) :
            /\ k \in RowIds(applications')
            /\ applications'[k].job_url = applications[k].job_url
       /\ (t_op'.op = "add_application" /\ t_op'.url # NULL) =>
            /\ ~t_op'.raised
            /\ RowsOfUrl(applications', t_op'.url) = {t_op'.ret}
            /\ RowsOfUrl(applications, t_op'.url) # {} =>
                  /\ RowsOfUrl(applications, t_op'.url) = {t_op'.ret}
                  /\ applications' = applications
                  /\ status_history' = status_history]_vars

\* C1 witness: add_application was just called for a URL whose row has already
\* left pending, with a job dict whose title differs from the stored one.
C1_Witness ==
    /\ t_op.op = "add_application"
    /\ t_op.url = "u1"
    /\ t_op.ret \in RowIds(applications)
    /\ applications[t_op.ret].status = "submitted"
    /\ Len(applications) = 2

\* C2: an update_status call for an existing id appends exactly one history
\* row (id, new status) and sets the row's status; no history row is appended
\* without the status of the row it names being set to its new_status, and no
\* status changes without a history row for it.
C2_TransitionAndHistoryTogether ==
    [][/\ (t_op'.op = "update_status" /\ t_op'.id \in RowIds(applications)) =>
            /\ Len(status_history') = Len(status_history) + 1
            /\ status_history'[Len(status_history')].application_id = t_op'.id
            /\ status_history'[Len(status_history')].new_status = t_op'.status
            /\ applications'[t_op'.id].status = t_op'.status
       /\ \A h \in (Len(status_history) + 1)..Len(status_history') :
            /\ status_history'[h].application_id \in RowIds(applications')
            /\ applications'[status_history'[h].application_id].status
                  = status_history'[h].new_status
       /\ \A k \in RowIds(applications) :
            applications'[k].status # applications[k].status =>
               /\ Len(status_history') = Len(status_history) + 1
               /\ status_history'[Len(status_history')].application_id = k]_vars

\* C3: update_status with an id that is in no row raises and changes nothing,
\* so every history row names an existing application.
C3_UnknownIdIsAnError ==
    /\ \A h \in 1..Len(status_history) :
          status_history[h].application_id \in RowIds(applications)
    /\ (t_op.op = "update_status" /\ t_op.id \notin RowIds(applications))
          => t_op.raised


\* Whether sequence a is a prefix of sequence b.
IsPrefix(a, b) == Len(a) <= Len(b) /\ a = SubSeq(b, 1, Len(a))

\* C4: the jobs attempted are a prefix, in input order, of the tier-1 jobs of
\* the input, and are never more than max_apps (a negative max_apps allowing
\* none).
C4_AttemptsArePrefixWithinMax ==
    /\ IsPrefix(attempted, Tier1Jobs(jobs))
    /\ \A k \in 1..Len(attempted) : attempted[k].tier = 1
    /\ Len(attempted) <= (IF max_apps < 0 THEN 0 ELSE max_apps)

\* The scenario of 15 tier-1 jobs and max_apps = 10.
FifteenJobsMaxTen == Len(Tier1Jobs(jobs)) = 15 /\ max_apps = 10

BreaksBefore(k) == IF k = 0 THEN 0 ELSE (k - 1) \div BatchSize

C6_DelayIsABarrier ==
    [][(Len(attempted') = Len(attempted) + 1 /\ Len(attempted) >= 1) =>
          /\ pc = "next"
          /\ context_open = 0
          /\ success_count + fail_count = Len(attempted)
          /\ delays = Len(attempted)
          /\ cooldowns = Len(attempted) \div BatchSize
          /\ slept >= DelayMin
                + (IF Len(attempted) % BatchSize = 0 THEN SessionBreak ELSE 0)
          /\ slept <= DelayMax
                + (IF Len(attempted) % BatchSize = 0 THEN SessionBreak ELSE 0)]_vars

\* C6 witness: the 11th attempt is running, after the delay and the session
\* break that follow the 10th.
C6_Witness ==
    /\ pc = "attempt"
    /\ Len(attempted) = 11
    /\ cooldowns = 1
    /\ slept = DelayMax + SessionBreak

\* C7: a failure while one selected job is processed never aborts the call:
\* once the loop has started, apply_to_jobs does not raise.
C7_FailureDoesNotAbortBatch ==
    /\ pc = "raised" => i = 0
    /\ (pc = "done" /\ summary # <<>>) =>
          /\ Len(attempted) = Len(jobs_to_process)
          /\ success_count + fail_count = Len(jobs_to_process)

\* C8 as claimed: when the call has ended, the outcome list holds one record
\* per attempt.
C8_OneRecordPerAttempt ==
    pc = "done" => Len(auto_applications) = Len(attempted)

\* C8 as amended: self.applications holds one record per successful attempt
\* and none for a failed one; failures are only counted.  Between attempts the
\* two counters add up to the number of attempts made.
C8_OneRecordPerSuccess ==
    /\ Len(auto_applications) = success_count
    /\ \A k \in 1..Len(auto_applications) :
          /\ auto_applications[k].status = "submitted"
          /\ \E m \in 1..Len(attempted) :
                /\ auto_applications[k] = ApplicationEntry(attempted[m])
                /\ StrategyCanSubmit(attempted[m].ats)
    /\ pc \in {"next", "delay", "cooldown", "done"} =>
          success_count + fail_count = Len(attempted)

\* C8 witness: a call ended with both a successful and a failed attempt.
C8_Witness ==
    /\ pc = "done"
    /\ success_count >= 1
    /\ fail_count >= 1
    /\ Len(auto_applications) < Len(attempted)


\* Whether an attempt on a job with this URL can have returned True in the
\* running dispatch call: the job was handed to _apply_to_job, its strategy
\* can submit, and the dispatcher counted a success.
SucceededInRun(u) ==
    /\ success_count >= 1
    /\ \E m \in 1..Len(attempted) :
          attempted[m].url = u /\ StrategyCanSubmit(attempted[m].ats)

\* C9: the pipeline writes a status only as a transition to submitted of the
\* record of a job whose attempt succeeded in this run, at most one transition
\* per success; a failed or aborted attempt leaves the status and the history
\* of its record as they were.
C9_SubmittedOnlyOnSuccess ==
    [][/\ Len(status_history') >= Len(status_history)
       /\ Len(status_history') - Len(status_history) <= success_count
       /\ \A h \in (Len(status_history) + 1)..Len(status_history') :
            /\ status_history'[h].new_status = "submitted"
            /\ status_history'[h].application_id \in RowIds(applications)
            /\ SucceededInRun(applications[status_history'[h].application_id].job_url)
       /\ \A k \in RowIds(applications) :
            applications'[k].status # applications[k].status =>
               /\ applications'[k].status = "submitted"
               /\ SucceededInRun(applications[k].job_url)
       /\ (Len(status_history') > Len(status_history)) =>
            opc = "applying" /\ pc = "done"]_vars

\* C9 witness: a live run ended in which one job was submitted and recorded,
\* while a job whose attempt failed is still pending with no history.
C9_Witness ==
    /\ opc = "finished"
    /\ ~dry_run
    /\ success_count = 1
    /\ fail_count = 1
    /\ Len(status_history) = 1
    /\ \E k \in RowIds(applications) :
          applications[k].status = "submitted" /\ applications[k].job_url = "u1"
    /\ \E k \in RowIds(applications) :
          /\ applications[k].status = "pending"
          /\ applications[k].job_url = "u2"
          /\ \E m \in 1..Len(attempted) : attempted[m].url = "u2"

\* The history rows of application k, as positions in status_history.
HistoryOf(k) ==
    {h \in 1..Len(status_history) : status_history[h].application_id = k}

\* Every record that is not pending has a history row, and its latest history
\* row carries its current status.
StatusBackedByHistory ==
    \A k \in RowIds(applications) :
        applications[k].status # "pending" =>
            /\ HistoryOf(k) # {}
            /\ \E h \in HistoryOf(k) :
                  /\ \A g \in HistoryOf(k) : g <= h
                  /\ status_history[h].new_status = applications[k].status

\* C10: every record that is not pending has a history row and its latest
\* history row carries its status; history rows are only ever appended, never
\* changed or removed.
C10_HistoryBacksStatus ==
    /\ []StatusBackedByHistory
    /\ [][IsPrefix(status_history, status_history')]_vars

\* C10 witness: a record went through two transitions; the earlier history
\* row is still there and the later one carries the record's status.
C10_Witness ==
    /\ Len(applications) >= 1
    /\ applications[1].status = "failed"
    /\ Len(status_history) = 2
    /\ status_history[1].application_id = 1
    /\ status_history[1].new_status = "submitted"
    /\ status_history[2].application_id = 1
    /\ status_history[2].new_status = "failed"

\* C11: whenever two callers have run add_application for the same URL
\* concurrently, whatever the interleaving of their insert and lookup steps,
\* exactly one row for that URL is in the table and both callers have
\* received that row's id.
C11_ConcurrentAddsAgree ==
    \A c \in Connections, d \in Connections :
        (/\ c # d
         /\ conns[c].pc = "done" /\ conns[d].pc = "done"
         /\ conns[c].job.url = conns[d].job.url
         /\ HasKey(conns[c].job, "url"))
        => /\ Cardinality(RowsOfUrl(applications, conns[c].job.url)) = 1
           /\ conns[c].raised = NULL /\ conns[d].raised = NULL
           /\ conns[c].ret = conns[d].ret
           /\ conns[c].ret \in RowsOfUrl(applications, conns[c].job.url)

\* The catalog entries one of whose domain strings the URL's host contains.
HostProviders(url) ==
    {k \in 1..Len(ATS_PATTERNS) : DomainMatch(ATS_PATTERNS[k], url)}

FirstHostProvider(url) ==
    CHOOSE k \in HostProviders(url) : \A g \in HostProviders(url) : k <= g

\* C12: for every URL whose host contains a domain string of a catalog
\* provider, classification returns the identity, tier and success probability
\* of the first such provider in catalog order, whatever the path or query of
\* the URL contains: host matching is decided before any URL-pattern match of
\* another provider.
C12_HostMatchDecidesFirst ==
    (/\ classified # NotClassified
     /\ posting.url.kind = "str"
     /\ HostProviders(posting.url) # {})
    => /\ ~classified.raised
       /\ classified.ats = ATS_PATTERNS[FirstHostProvider(posting.url)].name
       /\ classified.tier = ATS_PATTERNS[FirstHostProvider(posting.url)].tier
       /\ classified.success_rate =
             ATS_PATTERNS[FirstHostProvider(posting.url)].success_rate

\* Whether urlparse accepts the url value of the posting (a str, or absent and
\* so the empty str).
WellFormedUrl(job) == job.url.kind # "none" /\ ~UrlparseRaises(job.url)

MatchesNothing(url) ==
    \A k \in 1..Len(ATS_PATTERNS) :
        ~DomainMatch(ATS_PATTERNS[k], url) /\ ~UrlPatternMatch(ATS_PATTERNS[k], url)

FromContentAlone(html) ==
    FirstHit(ATS_PATTERNS,
             {k \in 1..Len(ATS_PATTERNS) : HtmlPatternMatch(ATS_PATTERNS[k], html)})

\* C14: classification never ends in an error: a posting whose URL is
\* malformed, unparsable or absent is classified from its content alone, and
\* as 'unknown', tier 3 when the content is absent too.
C14_ClassificationNeverRaises ==
    /\ ~classified.raised
    /\ (classified # NotClassified /\ ~(WellFormedUrl(posting) /\ Truthy(posting.url)))
       => /\ classified.ats = FromContentAlone(posting.html).ats
          /\ classified.tier = FromContentAlone(posting.html).tier
          /\ (posting.html = <<>> =>
                 classified.ats = "unknown" /\ classified.tier = 3)

\* C15: for every profile, one with empty skill, keyword or role sets
\* included, and every posting, score_job returns a value between 0 and 100,
\* and each sub-score lies within its cap: title 0..25, skills 0..40,
\* keywords 0..20, location, salary and company 0..5 each.
C15_ScoresWithinCaps ==
    /\ \A k \in 1..Len(last_call.result) :
          /\ 0 <= last_call.result[k].score
          /\ last_call.result[k].score <= 100 * Den(matcher)
    /\ last_call.op = "score_job" =>
          LET job == last_call.jobs[1]
          IN  /\ score_title(matcher, job.title) \in 0..25
              /\ 0 <= score_skills(matcher, JobText(job))
              /\ score_skills(matcher, JobText(job)) <= 40 * Den(matcher)
              /\ 0 <= score_keywords(matcher, JobText(job))
              /\ score_keywords(matcher, JobText(job)) <= 20 * Den(matcher)
              /\ score_location(job.location) \in 0..5
              /\ score_company(job.company) \in 0..5

\* C15 witness: a management title was scored against a profile without
\* skills, keywords or roles, and the title's penalty was clamped at 0.
C15_Witness ==
    /\ last_call.op = "score_job"
    /\ matcher.skills = {} /\ matcher.keywords = {} /\ matcher.target_roles = <<>>
    /\ last_call.jobs[1].title = <<"Engineer", "ing", " ", "Manager">>
    /\ last_call.jobs[1].location = <<"Remote">>
    /\ last_call.result[1].score = 5

TextFields == {"title", "description", "snippet", "company"}

\* The posting with a term added to one of its text fields.
AddTerm(job, field, term) ==
    [job EXCEPT ![field] = @ \o <<" ">> \o term]

\* C16: for a fixed profile, adding a profile skill term to a posting's text
\* (title, description, snippet or company) never decreases score_job.
C16_AddingSkillNeverLowersScore ==
    last_call.op = "score_job" =>
        \A term \in matcher.skills, field \in TextFields :
            score_job(matcher, AddTerm(last_call.jobs[1], field, term))
                >= last_call.result[1].score

\* C17: when the profile cannot be obtained (network error, error status,
\* unparsable body, or an error while its fields are extracted), the skills,
\* keywords and target roles are exactly the fallback sets, with nothing left
\* over from a partial extraction, and every posting still gets a score.
C17_FailedLoadLeavesFallbackOnly ==
    last_call.load = "failed" =>
        /\ matcher.skills = FallbackSkills
        /\ matcher.keywords = FallbackSkills
        /\ matcher.target_roles = FallbackRoles
        /\ last_call.op \in {"score_job", "score_jobs"} =>
              /\ Len(last_call.result) = Len(last_call.jobs)
              /\ \A k \in 1..Len(last_call.result) :
                    last_call.result[k].score \in 0..(100 * Den(matcher))

\* C17 witness: score_jobs fetched a resume whose keyword list holds an item
\* that is not a string, so the extraction failed after the skills were added.
C17_Witness ==
    /\ last_call.op = "score_jobs"
    /\ last_call.load = "failed"
    /\ matcher.resume = <<BadKeywordResume>>
    /\ Len(last_call.result) = 2
    /\ matcher.skills = FallbackSkills

\* C18: score_jobs attaches match_score to every posting and returns the
\* postings as a permutation of the list it was given, in non-increasing
\* match_score order, postings of equal score in their original order.
C18_ScoreJobsRanksStably ==
    last_call.op = "score_jobs" =>
        LET js == last_call.jobs
            out == last_call.result
        IN  /\ Len(out) = Len(js)
            /\ {out[k].pos : k \in 1..Len(out)} = 1..Len(js)
            /\ \A k \in 1..Len(out) :
                  /\ out[k].job = js[out[k].pos]
                  /\ out[k].match_score \in 0..1000
            /\ \A k \in 1..(Len(out) - 1) :
                  /\ out[k].match_score >= out[k + 1].match_score
                  /\ out[k].match_score = out[k + 1].match_score
                        => out[k].pos < out[k + 1].pos

\* C18 witness: of three postings the last scored most and moved to the
\* front, and the two others, different postings of equal score, kept their order.
C18_Witness ==
    /\ last_call.op = "score_jobs"
    /\ Len(last_call.result) = 3
    /\ last_call.result[1].pos = 3
    /\ last_call.result[2].pos = 1
    /\ last_call.result[3].pos = 2
    /\ last_call.result[2].match_score = last_call.result[3].match_score
    /\ last_call.result[2].job # last_call.result[3].job

\* C19: every apply_to_jobs call ends by producing a summary, also when the
\* list holds no tier-1 job or when attempts failed, and the summary's
\* successful and failed counts add up to the number of attempts performed.
C19_EveryCallEndsWithSummary ==
    pc \in {"done", "raised"} =>
        /\ summary # <<>>
        /\ summary[1].successful + summary[1].failed = Len(attempted)

\* C20: in every reachable tracker state the status of every record is one
\* of pending, submitted, failed, responded, and a record that has never been
\* transitioned (a new record) is pending.
C20_StatusWithinDomain ==
    \A k \in 1..Len(applications) :
        /\ applications[k].status \in Statuses
        /\ applications[k].applied_at = NoTime => applications[k].status = "pending"

C22_UnlistedProviderNeverSubmits ==
    /\ \A job \in RoutedJobs :
          GetAts(job) \notin DispatchTable =>
             /\ Route(GetAts(job)) = <<"_fill", "generic">>
             /\ \A page \in PageResults : ~ApplySuccess(job, page)
    /\ \A k \in 1..Len(auto_applications) :
          auto_applications[k].ats \in DispatchTable
    /\ (pc \in {"next", "delay", "cooldown", "done"}
        /\ \A m \in 1..Len(attempted) : GetAts(attempted[m]) \notin DispatchTable)
       => (success_count = 0 /\ fail_count = Len(attempted))

\* C22 witness: a call has attempted two jobs of unlisted providers, one
\* without an ats key, and has counted both as failures.
C22_Witness ==
    /\ pc = "done"
    /\ Len(attempted) = 2
    /\ attempted[1].ats = NULL
    /\ attempted[2].ats = "greenhouse"
    /\ fail_count = 2
    /\ auto_applications = <<>>

\* The providers whose strategy method only delegates to the generic filler.
DelegatingProviders == {"recruitee", "manatal", "pinpoint"}

C24_DelaysAndBreaksCounted ==
    /\ (pc \in {"done", "raised"} /\ Len(attempted) >= 1) =>
          /\ delays = Len(attempted) - 1
          /\ cooldowns = (Len(attempted) - 1) \div BatchSize
    /\ pc = "cooldown" => (i % BatchSize = 0 /\ delays = i)

\* The history row of application k that precedes row h, or 0 when h is the
\* first one.
PreviousRow(k, h) ==
    IF \E g \in HistoryOf(k) : g < h
    THEN CHOOSE g \in HistoryOf(k) :
            g < h /\ \A f \in HistoryOf(k) : f < h => f <= g
    ELSE 0

\* C25: for every record the status_history rows written for it form a chain
\* in insertion order: the first row's old_status is pending and each later
\* row's old_status is the new_status of the row before it.
C25_HistoryIsAChain ==
    \A k \in RowIds(applications) :
        \A h \in HistoryOf(k) :
            status_history[h].old_status =
                IF PreviousRow(k, h) = 0 THEN "pending"
                ELSE status_history[PreviousRow(k, h)].new_status

\* C26: what a live pipeline run hands to the dispatcher depends on tier and
\* score only, not on the tracker: the tier-1 jobs that passed the score
\* filter are attempted, also one whose record is already submitted, and
\* every success appends a history row from the status the record then has,
\* submitted to submitted for a record submitted by an earlier run.
C26_SelectionIgnoresTrackerStatus ==
    [][/\ (opc = "apply" /\ opc' = "applying") =>
             /\ jobs' = Tier1Jobs(good_jobs)
             /\ jobs_to_process' = SliceTo(jobs', max_apps')
       /\ (opc = "applying" /\ opc' = "finished") =>
             /\ attempted = jobs_to_process
             /\ Len(status_history') = Len(status_history) + Len(auto_applications)
             /\ \A n \in 1..Len(auto_applications) :
                   LET row == status_history'[Len(status_history) + n]
                       id == get_application_id(applications, auto_applications[n].job_url)
                   IN /\ id # NoId
                      /\ row.application_id = id
                      /\ row.new_status = "submitted"
                      /\ row.old_status =
                            IF \E e \in 1..(n - 1) :
                                  auto_applications[e].job_url = auto_applications[n].job_url
                            THEN "submitted"
                            ELSE applications[id].status]_vars

\* C26 witness: the second live run has ended; the record submitted by the
\* first run was attempted again, and its second success wrote a history row
\* from submitted to submitted.
C26_Witness ==
    /\ opc = "finished"
    /\ runs = 2
    /\ ~dry_run
    /\ Len(attempted) >= 1
    /\ Len(status_history) = 2
    /\ status_history[1].application_id = status_history[2].application_id
    /\ status_history[1].old_status = "pending"
    /\ status_history[2].old_status = "submitted"
    /\ status_history[2].new_status = "submitted"
    /\ marked = <<"u1">>

\* C27: a dry run starts no dispatch attempt and writes no status
\* transition: the filtered jobs are upserted into the tracker, every record
\* the run creates stays pending, no record's status changes and
\* status_history is untouched, until the next run begins.
C27_DryRunOnlyUpserts ==
    /\ [](dry_run => /\ opc \in {"idle", "finished"}
                     /\ pc = "idle"
                     /\ attempted = <<>>
                     /\ marked = <<>>
                     /\ \A j \in 1..Len(good_jobs) :
                           good_jobs[j].url # NULL =>
                              get_application_id(applications, good_jobs[j].url) # NoId)
    /\ [][dry_run' =>
             /\ status_history' = status_history
             /\ IsPrefix(applications, applications')
             /\ \A k \in (Len(applications) + 1)..Len(applications') :
                   applications'[k].status = "pending"]_vars

\* C27 witness: after a live run that submitted a job, a dry run has added a
\* new pending record and left the submitted record and the history alone.
C27_Witness ==
    /\ dry_run
    /\ runs = 2
    /\ opc = "finished"
    /\ Len(applications) = 2
    /\ applications[1].status = "submitted"
    /\ applications[2].status = "pending"
    /\ Len(status_history) = 1

\* C28: in a live pipeline run the upsert into the tracker comes after the
\* filter and before the dispatch: every job for which an attempt begins has
\* tier 1, has match_score >= min_match_score and has a tracker record, and
\* no record is created while the dispatcher runs, so the record was there
\* before the first attempt of the run began.
C28_AttemptsFollowFilterAndUpsert ==
    /\ [](/\ \A m \in 1..Len(attempted) :
                /\ attempted[m].tier = 1
                /\ attempted[m].match_score >= MinMatchScore
                /\ get_application_id(applications, attempted[m].url) # NoId
          /\ opc = "apply" =>
                /\ attempted = <<>>
                /\ \A j \in 1..Len(good_jobs) :
                      get_application_id(applications, good_jobs[j].url) # NoId)
    /\ [][(opc = "apply" \/ opc = "applying") =>
             /\ Len(applications') = Len(applications)
             /\ \A k \in RowIds(applications) :
                   applications'[k].job_url = applications[k].job_url]_vars

\* C28 witness: in a live run the attempt on the tier-1 job that passed the
\* filter is running and its record, still pending, is in the tracker.
C28_Witness ==
    /\ opc = "applying"
    /\ pc = "attempt"
    /\ runs = 1
    /\ good_jobs = <<JazzJob>>
    /\ attempted = <<JazzJob>>
    /\ Len(applications) = 1
    /\ applications[1].job_url = "u1"
    /\ applications[1].status = "pending"

\* C29: mark_submitted and mark_failed called with a URL that has no record
\* raise no error and leave the applications and status_history tables as
\* they were.
C29_MarkUntrackedIsNoOp ==
    [][(/\ t_op'.op \in {"mark_submitted", "mark_failed"}
        /\ get_application_id(applications, t_op'.url) = NoId) =>
          /\ applications' = applications
          /\ status_history' = status_history
          /\ t_op'.raised = FALSE]_vars

\* C29 witness: mark_failed was called for a URL without a record while
\* another URL has one; the table still holds that one pending record and
\* the history is empty.
C29_Witness ==
    /\ t_op.op = "mark_failed"
    /\ t_op.url = "u2"
    /\ Len(applications) = 1
    /\ applications[1].job_url = "u1"
    /\ applications[1].status = "pending"
    /\ status_history = <<>>

\* Whether the step just taken is an update_status call on record k, made
\* directly or through mark_submitted / mark_failed.
TransitionsRecord(k) ==
    \/ t_op'.op = "update_status" /\ t_op'.id = k
    \/ /\ t_op'.op \in {"mark_submitted", "mark_failed"}
       /\ get_application_id(applications, t_op'.url) = k

\* C30: a record's applied_at is NULL from its creation until the first
\* update_status call on it; every update_status call on it, also one to
\* failed, overwrites applied_at with the time of the call; and no tracker
\* operation sets response_at or changes a field of a record other than
\* status and applied_at.
C30_AppliedAtFollowsTransitions ==
    [][/\ IsPrefix([k \in RowIds(applications) |-> applications[k].job_url],
                   [k \in RowIds(applications') |-> applications'[k].job_url])
       /\ \A k \in RowIds(applications') :
             /\ applications'[k].response_at = NoTime
             /\ k \notin RowIds(applications) =>
                   applications'[k].applied_at = NoTime
             /\ k \in RowIds(applications) =>
                   /\ [applications'[k] EXCEPT !.status = "pending", !.applied_at = NoTime]
                         = [applications[k] EXCEPT !.status = "pending", !.applied_at = NoTime]
                   /\ IF TransitionsRecord(k)
                      THEN /\ applications'[k].status = t_op'.status
                           /\ applications'[k].applied_at = clock'
                           /\ applications'[k].applied_at > applications[k].applied_at
                      ELSE /\ applications'[k].status = applications[k].status
                           /\ applications'[k].applied_at = applications[k].applied_at]_vars

\* C30 witness: a record transitioned to submitted and then to failed
\* carries the time of the second call, and a record never transitioned
\* still has no applied_at.
C30_Witness ==
    /\ Len(applications) = 2
    /\ Len(status_history) = 2
    /\ status_history[1].application_id = 1
    /\ status_history[2].application_id = 1
    /\ status_history[2].new_status = "failed"
    /\ applications[1].status = "failed"
    /\ applications[1].applied_at = clock
    /\ applications[1].response_at = NoTime
    /\ applications[2].applied_at = NoTime

====
